---- MODULE Spec2Model ----
(***************************************************************************)
(* Compile-time query validation pipeline of sqlx-macros:                  *)
(*   query_macros/data.rs   QueryData::from_db, from_file, to_file,        *)
(*                          describe_query, DisplayColumn                  *)
(*   query_macros/input.rs  QueryMacroInput::parse, describe_validate,     *)
(*                          read_file_src                                  *)
(* Each component is a specification of its own over the variables below;  *)
(* the variables a component does not use stay at their initial values.    *)
(* Messages are the source's format strings; a backquote of the source is  *)
(* written as an apostrophe, which is the one character a TLA+ string      *)
(* cannot hold.                                                            *)
(***************************************************************************)
EXTENDS Integers, Sequences, FiniteSets, TLC

VARIABLES
    pc,             \* position of the operation under study
    result,         \* what the operation under study returned, once it has
    query,          \* the `query` argument of from_db / from_file
    describe,       \* what conn.describe(..).await returned, once it has
    describeCalls,  \* number of Executor::describe invocations
    features,       \* compiled-in cargo features (cfg(feature = ...))
    db_url,         \* from_db argument db_url
    conn,           \* from_db's `conn`: the open connection, if any
    connectCalls,   \* number of Connect::connect invocations
    input,          \* the ParseStream handed to QueryMacroInput::parse
    macro_input,    \* the QueryMacroInput (`self` of describe_validate)
    files,          \* the file system: path -> contents, None when absent
    saved,          \* the to_file call: its self, path and return value
    path,           \* from_file argument path / read_file_src argument source
    manifest_dir,   \* the environment variable CARGO_MANIFEST_DIR
    reads           \* the paths handed to fs::read_to_string, in order

sharedVars == <<pc, result, query, describe, describeCalls>>
liveVars == <<features, db_url, conn, connectCalls>>
inputVars == <<input, macro_input>>
fileVars == <<files, saved, path, manifest_dir, reads>>
vars == <<sharedVars, liveVars, inputVars, fileVars>>

-----------------------------------------------------------------------------
(* Option<T> and Result<T, E>                                              *)

None == <<>>
Some(x) == <<x>>
IsSome(o) == o # <<>>
Unwrap(o) == o[1]
unwrap_or(o, default) == IF IsSome(o) THEN o[1] ELSE default

Ok(v) == [ok |-> TRUE, val |-> v]
Err(e) == [ok |-> FALSE, err |-> e]

OptionOf(S) == {None} \cup {Some(x) : x \in S}
SeqUpTo(S, n) == UNION {[1..k -> S] : k \in 0..n}

-----------------------------------------------------------------------------
(* Bounds                                                                  *)

MaxCols == 2        \* result columns of a Describe in SpecDescribe
MaxParams == 1      \* parameters of a Describe in SpecDescribe
FewCols == 1        \* result columns of a Describe in SpecLive and SpecValidate

-----------------------------------------------------------------------------
(* Backend type mapping (DatabaseExt)                                      *)

TypeInfos == {"INT4", "JSON", "GEOMETRY"}
ColumnNames == {"id", "name"}
Queries == {"SELECT 1", "SELECT $1"}

param_type_for_id(id) ==
    CASE id = "INT4" -> Some("i32")
      [] OTHER -> None

return_type_for_id(id) ==
    CASE id = "INT4" -> Some("i32")
      [] OTHER -> None

get_feature_gate(id) ==
    CASE id = "JSON" -> Some("json")
      [] OTHER -> None

-----------------------------------------------------------------------------
(* data.rs: DisplayColumn and describe_query                               *)

\* {:?} of a &str
DebugStr(s) == "\"" \o s \o "\""

DisplayColumn(idx, name) ==
    LET num == idx + 1 IN
    IF IsSome(name)
    THEN "column #" \o ToString(num) \o " (" \o DebugStr(Unwrap(name)) \o ")"
    ELSE "column #" \o ToString(num)

\* the nullability step of the column closure
NullabilityWrap(non_null, type_) ==
    IF unwrap_or(non_null, FALSE) THEN "Option<" \o type_ \o ">" ELSE type_

\* the name step of the column closure; i is the zero-based enumerate() index
ColumnName(i, column) ==
    IF IsSome(column.name)
    THEN Ok(Unwrap(column.name))
    ELSE Err("column at position " \o ToString(i) \o " must have a name")

\* the closure mapped over describe.result_columns.iter().enumerate()
MapColumn(i, column) ==
    LET name == ColumnName(i, column) IN
    IF ~name.ok THEN name
    ELSE IF ~IsSome(column.type_info)
    THEN Err("database couldn't tell us the type of "
             \o DisplayColumn(i, column.name)
             \o "; this can happen for columns that are the result of an expression")
    ELSE LET type_info == Unwrap(column.type_info)
             type_ == return_type_for_id(type_info)
         IN  IF ~IsSome(type_)
             THEN IF IsSome(get_feature_gate(type_info))
                  THEN Err("optional feature '" \o Unwrap(get_feature_gate(type_info))
                           \o "' required for type " \o type_info
                           \o " of " \o DisplayColumn(i, column.name))
                  ELSE Err("unsupported type " \o type_info
                           \o " of " \o DisplayColumn(i, column.name))
             ELSE Ok(<<name.val, NullabilityWrap(column.non_null, Unwrap(type_))>>)

\* the closure mapped over describe.param_types
MapParam(param_ty) ==
    IF IsSome(param_ty) THEN param_type_for_id(Unwrap(param_ty)) ELSE None

\* a collect that skips the columns that failed (filter_map(Result::ok))
CollectResults_SkipErrors(rs) ==
    LET RECURSIVE keep(_)
        keep(k) == IF k > Len(rs) THEN <<>>
                   ELSE IF rs[k].ok THEN <<rs[k].val>> \o keep(k + 1)
                   ELSE keep(k + 1)
    IN  Ok(keep(1))

\* .collect::<crate::Result<Vec<_>>>(): the first Err in order, else all values
CollectResults(rs) ==
    LET bad == {k \in 1..Len(rs) : ~rs[k].ok} IN
    IF bad = {}
    THEN Ok([k \in 1..Len(rs) |-> rs[k].val])
    ELSE rs[CHOOSE k \in bad : \A j \in bad : k <= j]

\* the column pass of describe_query: position k of the sequence is index k-1
MapOutputs(result_columns) ==
    CollectResults([k \in 1..Len(result_columns) |-> MapColumn(k - 1, result_columns[k])])

\* describe_query once conn.describe(query).await has returned d
describe_query(d, q) ==
    IF ~d.ok THEN Err(d.err)
    ELSE LET input_types == [k \in 1..Len(d.val.param_types) |-> MapParam(d.val.param_types[k])]
             outputs == MapOutputs(d.val.result_columns)
         IN  IF ~outputs.ok THEN outputs
             ELSE Ok([query |-> q, input_types |-> input_types, outputs |-> outputs.val])

-----------------------------------------------------------------------------
(* What a backend's describe can return                                    *)

Columns == [name : OptionOf(ColumnNames),
            type_info : OptionOf(TypeInfos),
            non_null : OptionOf(BOOLEAN)]

Describes(maxParams, maxCols) ==
    {Ok(d) : d \in [param_types : SeqUpTo(OptionOf(TypeInfos \ {"JSON"}), maxParams),
                    result_columns : SeqUpTo(Columns, maxCols)]}
    \cup {Err("syntax error at or near \"SELEC\"")}

-----------------------------------------------------------------------------
(* data.rs: QueryData::from_db                                             *)

Features == {"sqlite", "postgres", "mysql"}

\* db_url as written by the user: <<scheme, rest>>, or <<rest>> without a scheme
DbUrls == {<<s, "localhost/db">> :
              s \in {"sqlite", "postgresql", "postgres", "mysql", "mariadb",
                     "POSTGRES", "mssql", "http"}}
          \cup {<<"localhost/db">>}

\* the url crate stores the scheme in ASCII lower case
ToAsciiLowercase(s) ==
    CASE s = "POSTGRES" -> "postgres"
      [] OTHER -> s

\* db_url.parse::<Url>()
ParseUrl(u) ==
    IF Len(u) = 2
    THEN Ok([scheme |-> ToAsciiLowercase(u[1]), rest |-> u[2]])
    ELSE Err("relative URL without a base")

\* Url::as_str / Display
UrlAsStr(url) == url.scheme \o "://" \o url.rest

\* a scheme table without the "mariadb" alternative of the mysql arms
SchemeArm_NoMariadb(scheme) ==
    CASE scheme = "sqlite" -> Some([feature |-> "sqlite", db |-> "SQLite"])
      [] scheme \in {"postgresql", "postgres"} ->
             Some([feature |-> "postgres", db |-> "Postgres"])
      [] scheme \in {"mysql"} ->
             Some([feature |-> "mysql", db |-> "MySQL/MariaDB"])
      [] OTHER -> None

\* the arms of `match db_url.scheme()`: the feature that gates the arm and
\* the database name its message uses, None for the catch-all arm
SchemeArm(scheme) ==
    CASE scheme = "sqlite" -> Some([feature |-> "sqlite", db |-> "SQLite"])
      [] scheme \in {"postgresql", "postgres"} ->
             Some([feature |-> "postgres", db |-> "Postgres"])
      [] scheme \in {"mysql", "mariadb"} ->
             Some([feature |-> "mysql", db |-> "MySQL/MariaDB"])
      [] OTHER -> None

FeatureNotEnabled(url, arm) ==
    "database URL " \o UrlAsStr(url) \o " has the scheme of a " \o arm.db
    \o " database but the '" \o arm.feature \o "' feature of sqlx was not enabled"

UnexpectedScheme(url) ==
    "unexpected scheme " \o DebugStr(url.scheme) \o " in database URL " \o UrlAsStr(url)

\* from_db up to its first await: Ok(feature) when an arm calls connect,
\* Err(message) when from_db returns without connecting
Dispatch(u, feats) ==
    LET parsed == ParseUrl(u) IN
    IF ~parsed.ok THEN Err(parsed.err)
    ELSE LET arm == SchemeArm(parsed.val.scheme) IN
         IF ~IsSome(arm) THEN Err(UnexpectedScheme(parsed.val))
         ELSE IF Unwrap(arm).feature \in feats THEN Ok(Unwrap(arm).feature)
         ELSE Err(FeatureNotEnabled(parsed.val, Unwrap(arm)))

\* from_db is entered and runs to the connect call of the selected arm
FromDbConnect(u, q) ==
    /\ pc = "idle"
    /\ Dispatch(u, features).ok
    /\ db_url' = u
    /\ query' = q
    /\ connectCalls' = connectCalls + 1
    /\ pc' = "connecting"
    /\ UNCHANGED <<features, conn, describeCalls, describe, result>>
    /\ UNCHANGED <<inputVars, fileVars>>

\* from_db is entered and returns an error before any connect
FromDbReject(u, q) ==
    /\ pc = "idle"
    /\ ~Dispatch(u, features).ok
    /\ db_url' = u
    /\ query' = q
    /\ result' = Some(Err(Dispatch(u, features).err))
    /\ pc' = "error"
    /\ UNCHANGED <<features, conn, connectCalls, describeCalls, describe>>
    /\ UNCHANGED <<inputVars, fileVars>>

\* connect(..).await returned Ok(conn): describe_query starts, calls conn.describe
ConnectOk ==
    /\ pc = "connecting"
    /\ conn' = Some(Dispatch(db_url, features).val)
    /\ describeCalls' = describeCalls + 1
    /\ pc' = "describing"
    /\ UNCHANGED <<features, db_url, query, connectCalls, describe, result>>
    /\ UNCHANGED <<inputVars, fileVars>>

\* a connect failure that starts from_db over instead of returning
ConnectErr_Retry(e) ==
    /\ pc = "connecting"
    /\ pc' = "idle"
    /\ UNCHANGED <<features, db_url, query, conn, connectCalls, describeCalls, describe, result>>
    /\ UNCHANGED <<inputVars, fileVars>>

\* connect(..).await returned Err(e): map_err and `?`
ConnectErr(e) ==
    /\ pc = "connecting"
    /\ result' = Some(Err("failed to connect to database: " \o e))
    /\ pc' = "error"
    /\ UNCHANGED <<features, db_url, query, conn, connectCalls, describeCalls, describe>>
    /\ UNCHANGED <<inputVars, fileVars>>

\* conn.describe(query).await returned some d of D: the rest of
\* describe_query runs and drops the connection it owns
DescribeReturns(D) ==
    /\ pc = "describing"
    /\ conn' = None
    /\ \E d \in D :
        /\ describe' = Some(d)
        /\ result' = Some(describe_query(d, query))
        /\ pc' = IF describe_query(d, query).ok THEN "done" ELSE "error"
    /\ UNCHANGED <<features, db_url, query, connectCalls, describeCalls>>
    /\ UNCHANGED <<inputVars, fileVars>>

ConnectErrors == {"connection refused"}

\* the variables of the components that are not running
InputIdle == input = None /\ macro_input = None
FilesIdle ==
    /\ files = <<>>
    /\ saved = None
    /\ path = None
    /\ manifest_dir = None
    /\ reads = <<>>

InitLive ==
    /\ features \in SUBSET Features
    /\ pc = "idle"
    /\ db_url = None
    /\ query = None
    /\ conn = None
    /\ connectCalls = 0
    /\ describeCalls = 0
    /\ describe = None
    /\ result = None
    /\ InputIdle
    /\ FilesIdle

NextLive ==
    \/ \E u \in DbUrls, q \in Queries : FromDbConnect(u, q)
    \/ \E u \in DbUrls, q \in Queries : FromDbReject(u, q)
    \/ ConnectOk
    \/ \E e \in ConnectErrors : ConnectErr(e)
    \/ DescribeReturns(Describes(1, FewCols))

SpecLive == InitLive /\ [][NextLive]_vars

\* describe_query on its own: entered with an open connection of the
\* postgres backend, conn.describe already called
InitDescribe ==
    /\ features = {"postgres"}
    /\ pc = "describing"
    /\ db_url = <<"postgres", "localhost/db">>
    /\ query \in Queries
    /\ conn = Some("postgres")
    /\ connectCalls = 1
    /\ describeCalls = 1
    /\ describe = None
    /\ result = None
    /\ InputIdle
    /\ FilesIdle

NextDescribe == DescribeReturns(Describes(MaxParams, MaxCols))

SpecDescribe == InitDescribe /\ [][NextDescribe]_vars

-----------------------------------------------------------------------------
(* input.rs: QueryMacroInput::parse                                        *)
(* A ParseStream is a sequence of tokens: <<"ident", name>>,               *)
(* <<"str", value>>, <<"bool", value>>, <<",">>, <<"=">>, and              *)
(* <<"array", exprs>> for a bracketed, comma-separated expression list.    *)

MaxPairs == 2       \* key/literal pairs of an invocation
MaxArgs == 2        \* expressions of an `args` array

Ident(name) == <<"ident", name>>
LitStr(value) == <<"str", value>>
LitBool(value) == <<"bool", value>>
Comma == <<",">>
Eq == <<"=">>
ExprArray(elems) == <<"array", elems>>

\* input.peek(Token![..]) at cursor pos
Peek(ts, pos, tag) == pos <= Len(ts) /\ ts[pos][1] = tag

\* input.parse::<T>() at cursor pos for a one-token T
ParseToken(ts, pos, tag, what) ==
    IF pos > Len(ts) THEN Err("unexpected end of input, expected " \o what)
    ELSE IF ts[pos][1] = tag THEN Ok(ts[pos][2])
    ELSE Err("expected " \o what)

\* format_ident!("arg{}", i) for i in 0..n
ArgNames(n) == [k \in 1..n |-> "arg" \o ToString(k - 1)]

\* the code after the while loop
ParseFinish(st) ==
    IF ~IsSome(st.query_src)
    THEN Err("expected 'source' or 'source_file' key")
    ELSE LET arg_exprs == unwrap_or(st.args, <<>>) IN
         Ok([src |-> Unwrap(st.query_src)[1],
             src_span |-> Unwrap(st.query_src)[2],
             data_src |-> st.data_src,
             record_type |-> st.record_type,
             arg_names |-> ArgNames(Len(arg_exprs)),
             arg_exprs |-> arg_exprs])

\* the value parsed for `key` at cursor pos: Ok(updated locals) or Err
ParseValue(ts, pos, key, st) ==
    IF key = "source" THEN
        LET lit_str == ParseToken(ts, pos, "str", "string literal") IN
        IF ~lit_str.ok THEN lit_str
        ELSE Ok([st EXCEPT !.query_src = Some(<<<<"String", lit_str.val>>, pos>>)])
    ELSE IF key = "source_file" THEN
        LET lit_str == ParseToken(ts, pos, "str", "string literal") IN
        IF ~lit_str.ok THEN lit_str
        ELSE Ok([st EXCEPT !.query_src = Some(<<<<"File", lit_str.val>>, pos>>)])
    ELSE IF key = "args" THEN
        LET exprs == ParseToken(ts, pos, "array", "square brackets") IN
        IF ~exprs.ok THEN exprs
        ELSE Ok([st EXCEPT !.args = Some(exprs.val)])
    ELSE IF key = "record_type" THEN
        LET ty == ParseToken(ts, pos, "ident", "one of: type") IN
        IF ~ty.ok THEN ty
        ELSE Ok([st EXCEPT !.record_type = <<"Given", ty.val>>])
    ELSE IF key = "unchecked_output" THEN
        LET lit_bool == ParseToken(ts, pos, "bool", "boolean literal") IN
        IF ~lit_bool.ok THEN lit_bool
        ELSE Ok([st EXCEPT !.unchecked_output = lit_bool.val])
    ELSE Err("unexpected input key")

\* the while loop, from cursor pos with locals st
RECURSIVE ParseLoop(_, _, _)
ParseLoop(ts, pos, st) ==
    IF pos > Len(ts) THEN ParseFinish(st)
    ELSE IF st.expect_comma /\ ~Peek(ts, pos, ",") THEN Err("expected ','")
    ELSE LET key == ParseToken(ts, pos, "ident", "identifier") IN
         IF ~key.ok THEN key
         ELSE IF Peek(ts, pos + 1, "=") THEN Err("expected '='")
         ELSE LET value == ParseValue(ts, pos + 1, key.val, st) IN
              IF ~value.ok THEN value
              ELSE ParseLoop(ts, pos + 2, [value.val EXCEPT !.expect_comma = TRUE])

\* <QueryMacroInput as Parse>::parse
parse(ts) ==
    ParseLoop(ts, 1, [query_src |-> None,
                      data_src |-> <<"Env", "DATABASE_URL">>,
                      args |-> None,
                      record_type |-> <<"Generated">>,
                      unchecked_output |-> FALSE,
                      expect_comma |-> FALSE])

ArgExprs == {"a", "b"}

\* key/literal pairs a user may write
Pairs ==
    {<<"source", LitStr("SELECT 1")>>,
     <<"source", LitBool(TRUE)>>,
     <<"source_file", LitStr("queries/a.sql")>>,
     <<"record_type", Ident("Foo")>>,
     <<"unchecked_output", LitBool(TRUE)>>,
     <<"limit", LitStr("1")>>}
    \cup {<<"args", ExprArray(a)>> : a \in SeqUpTo(ArgExprs, MaxArgs)}

\* how the pairs are written down: `key literal` pairs separated by commas,
\* the same with a trailing comma, without commas, or as `key = literal`
Styles == {"comma", "trailing", "juxtaposed", "eq"}

RECURSIVE Tokens(_, _)
Tokens(pairs, style) ==
    IF pairs = <<>> THEN <<>>
    ELSE LET p == Head(pairs)
             pair == <<Ident(p[1])>> \o (IF style = "eq" THEN <<Eq>> ELSE <<>>) \o <<p[2]>>
             sep == IF style = "trailing" \/ (style # "juxtaposed" /\ Len(pairs) > 1)
                    THEN <<Comma>> ELSE <<>>
         IN  pair \o sep \o Tokens(Tail(pairs), style)

Invocations == {Tokens(ps, st) : ps \in SeqUpTo(Pairs, MaxPairs), st \in Styles}

\* the macro is expanded: parse runs on its token stream
Parse ==
    /\ pc = "idle"
    /\ \E ts \in Invocations :
        /\ input' = Some(ts)
        /\ result' = Some(parse(ts))
        /\ macro_input' = IF parse(ts).ok THEN Some(parse(ts).val) ELSE None
        /\ pc' = IF parse(ts).ok THEN "parsed" ELSE "error"
    /\ UNCHANGED <<query, describe, describeCalls, liveVars, fileVars>>

LiveIdle == features = {} /\ db_url = None /\ conn = None /\ connectCalls = 0

InitParse ==
    /\ pc = "idle"
    /\ result = None
    /\ query = None
    /\ describe = None
    /\ describeCalls = 0
    /\ InputIdle
    /\ LiveIdle
    /\ FilesIdle

NextParse == Parse

SpecParse == InitParse /\ [][NextParse]_vars

-----------------------------------------------------------------------------
(* input.rs: QueryMacroInput::describe_validate                            *)

\* a describe_validate whose message names the declared count first
describe_validate_Swapped(self, d) ==
    IF ~d.ok THEN Err(d.err)
    ELSE IF Len(self.arg_names) # Len(d.val.param_types)
    THEN Err("expected " \o ToString(Len(self.arg_names))
             \o " parameters, got " \o ToString(Len(d.val.param_types)))
    ELSE Ok(d.val)

\* describe_validate once conn.describe(..).await has returned d
describe_validate(self, d) ==
    IF ~d.ok THEN Err(d.err)
    ELSE IF Len(self.arg_names) # Len(d.val.param_types)
    THEN Err("expected " \o ToString(Len(d.val.param_types))
             \o " parameters, got " \o ToString(Len(self.arg_names)))
    ELSE Ok(d.val)

\* describe_validate runs on macro_input; conn.describe returns some d of D
DescribeValidate(D) ==
    /\ pc = "parsed"
    /\ describeCalls' = describeCalls + 1
    /\ \E d \in D :
        /\ describe' = Some(d)
        /\ result' = Some(describe_validate(Unwrap(macro_input), d))
        /\ pc' = IF describe_validate(Unwrap(macro_input), d).ok THEN "done" ELSE "error"
    /\ UNCHANGED <<query, liveVars, inputVars, fileVars>>

\* the inputs parse is written to build: a source and n positional arguments
MacroInputs ==
    {[src |-> <<"String", q>>, src_span |-> 2, data_src |-> <<"Env", "DATABASE_URL">>,
      record_type |-> <<"Generated">>, arg_names |-> ArgNames(Len(e)), arg_exprs |-> e] :
        q \in Queries, e \in SeqUpTo(ArgExprs, MaxArgs)}

InitValidate ==
    /\ pc = "parsed"
    /\ result = None
    /\ query = None
    /\ describe = None
    /\ describeCalls = 0
    /\ input = None
    /\ macro_input \in {Some(m) : m \in MacroInputs}
    /\ LiveIdle
    /\ FilesIdle

NextValidate == DescribeValidate(Describes(MaxArgs, FewCols))

SpecValidate == InitValidate /\ [][NextValidate]_vars

-----------------------------------------------------------------------------
(* data.rs: QueryData::to_file and QueryData::from_file                    *)
(* serde_json::to_writer emits compact JSON of the derived Serialize:      *)
(* {"query":"..","input_types":["..",null],"outputs":[["..",".."]]}        *)
(* FromJson reads that layout back character by character and rejects any  *)
(* other text.                                                             *)

MaxInputs == 2      \* input_types of a cached descriptor
MaxOutputs == 1     \* outputs of a cached descriptor

StartsWith(s, prefix) ==
    Len(s) >= Len(prefix) /\ SubSeq(s, 1, Len(prefix)) = prefix
Drop(s, n) == SubSeq(s, n + 1, Len(s))

\* an escape that leaves the double quote as it is
EscapeChar_QuoteRaw(c) ==
    IF c = "\\" THEN "\\\\"
    ELSE IF c = "\n" THEN "\\n"
    ELSE c

\* serde_json's escape of one character of a string
EscapeChar(c) ==
    IF c = "\"" THEN "\\\""
    ELSE IF c = "\\" THEN "\\\\"
    ELSE IF c = "\n" THEN "\\n"
    ELSE c

RECURSIVE Escape(_)
Escape(s) == IF Len(s) = 0 THEN "" ELSE EscapeChar(Head(s)) \o Escape(Tail(s))

JsonStr(s) == "\"" \o Escape(s) \o "\""
JsonOptStr(o) == IF IsSome(o) THEN JsonStr(Unwrap(o)) ELSE "null"
JsonPair(p) == "[" \o JsonStr(p[1]) \o "," \o JsonStr(p[2]) \o "]"

\* items separated by commas
RECURSIVE JoinComma(_)
JoinComma(items) ==
    IF items = <<>> THEN ""
    ELSE IF Len(items) = 1 THEN items[1]
    ELSE items[1] \o "," \o JoinComma(Tail(items))

\* serde_json::to_writer(_, self)
ToJson(d) ==
    "{\"query\":" \o JsonStr(d.query)
    \o ",\"input_types\":["
    \o JoinComma([k \in 1..Len(d.input_types) |-> JsonOptStr(d.input_types[k])])
    \o "],\"outputs\":["
    \o JoinComma([k \in 1..Len(d.outputs) |-> JsonPair(d.outputs[k])])
    \o "]}"

Parsed(v, rest) == [ok |-> TRUE, val |-> v, rest |-> rest]
Malformed == [ok |-> FALSE, err |-> "expected value at line 1 column 1"]

\* the characters of a JSON string after its opening quote
RECURSIVE ScanStr(_, _)
ScanStr(s, acc) ==
    IF Len(s) = 0 THEN Malformed
    ELSE IF Head(s) = "\"" THEN Parsed(acc, Tail(s))
    ELSE IF Head(s) = "\\" THEN
        IF Len(s) < 2 THEN Malformed
        ELSE IF SubSeq(s, 2, 2) = "\"" THEN ScanStr(Drop(s, 2), acc \o "\"")
        ELSE IF SubSeq(s, 2, 2) = "\\" THEN ScanStr(Drop(s, 2), acc \o "\\")
        ELSE IF SubSeq(s, 2, 2) = "n" THEN ScanStr(Drop(s, 2), acc \o "\n")
        ELSE Malformed
    ELSE IF Head(s) = "\n" THEN Malformed
    ELSE ScanStr(Tail(s), acc \o Head(s))

ParseStr(s) == IF StartsWith(s, "\"") THEN ScanStr(Tail(s), "") ELSE Malformed

\* Option<String>: null or a string
ParseOptStr(s) ==
    IF StartsWith(s, "null") THEN Parsed(None, Drop(s, 4))
    ELSE LET str == ParseStr(s) IN
         IF str.ok THEN Parsed(Some(str.val), str.rest) ELSE str

\* (String, String): an array of exactly two strings
ParsePair(s) ==
    IF ~StartsWith(s, "[") THEN Malformed
    ELSE LET a == ParseStr(Tail(s)) IN
         IF ~a.ok THEN a
         ELSE IF ~StartsWith(a.rest, ",") THEN Malformed
         ELSE LET b == ParseStr(Tail(a.rest)) IN
              IF ~b.ok THEN b
              ELSE IF ~StartsWith(b.rest, "]") THEN Malformed
              ELSE Parsed(<<a.val, b.val>>, Tail(b.rest))

ParseElem(kind, s) == IF kind = "opt" THEN ParseOptStr(s) ELSE ParsePair(s)

\* the elements of an array after its opening bracket or after a comma
RECURSIVE ParseElems(_, _, _)
ParseElems(kind, s, acc) ==
    LET e == ParseElem(kind, s) IN
    IF ~e.ok THEN e
    ELSE IF StartsWith(e.rest, ",") THEN ParseElems(kind, Tail(e.rest), Append(acc, e.val))
    ELSE IF StartsWith(e.rest, "]") THEN Parsed(Append(acc, e.val), Tail(e.rest))
    ELSE Malformed

ParseArray(kind, s) ==
    IF ~StartsWith(s, "[") THEN Malformed
    ELSE IF StartsWith(s, "[]") THEN Parsed(<<>>, Drop(s, 2))
    ELSE ParseElems(kind, Tail(s), <<>>)

\* `key` followed by the value the field parser reads
ParseField(key, kind, s) ==
    IF ~StartsWith(s, key) THEN Malformed
    ELSE IF kind = "str" THEN ParseStr(Drop(s, Len(key)))
    ELSE ParseArray(kind, Drop(s, Len(key)))

\* serde_json::from_reader::<_, QueryData>
FromJson(text) ==
    LET q == ParseField("{\"query\":", "str", text) IN
    IF ~q.ok THEN Malformed
    ELSE LET i == ParseField(",\"input_types\":", "opt", q.rest) IN
         IF ~i.ok THEN Malformed
         ELSE LET o == ParseField(",\"outputs\":", "pair", i.rest) IN
              IF ~o.ok THEN Malformed
              ELSE IF o.rest # "}" THEN Malformed
              ELSE Ok([query |-> q.val, input_types |-> i.val, outputs |-> o.val])

OpenError(p) ==
    "failed to open path " \o DebugStr(p) \o ": No such file or directory (os error 2)"

\* File::create(path): possible when the directory of path exists
CanCreate(fs, p) == p \in DOMAIN fs
\* File::open(path): possible when the file exists
CanOpen(fs, p) == p \in DOMAIN fs /\ IsSome(fs[p])

\* QueryData::from_file; the argument q is not used
from_file(fs, p, q) ==
    IF ~CanOpen(fs, p) THEN Err(OpenError(p))
    ELSE FromJson(Unwrap(fs[p]))

CachePaths == {"sqlx-data.json", "target/sqlx-data.json", "no-such-dir/sqlx-data.json"}
CacheQueries == {"SELECT 1", "SELECT \"id\" FROM t\nWHERE a = '\\'"}

QueryDatas ==
    [query : CacheQueries,
     input_types : SeqUpTo(OptionOf({"i32", "null"}), MaxInputs),
     outputs : SeqUpTo({"id", "a\"b"} \X {"i32", "Option<i32>"}, MaxOutputs)]

\* QueryData::to_file: the file is created (truncated), then written
ToFile ==
    /\ pc = "idle"
    /\ \E d \in QueryDatas, p \in CachePaths :
        IF CanCreate(files, p)
        THEN /\ files' = [files EXCEPT ![p] = Some(ToJson(d))]
             /\ saved' = Some([self |-> d, path |-> p, ret |-> Ok("()")])
        ELSE /\ files' = files
             /\ saved' = Some([self |-> d, path |-> p, ret |-> Err(OpenError(p))])
    /\ pc' = "saved"
    /\ UNCHANGED <<result, query, describe, describeCalls, liveVars, inputVars,
                   path, manifest_dir, reads>>

\* QueryData::from_file, by a later build or without any to_file before it
FromFile ==
    /\ pc \in {"idle", "saved"}
    /\ \E p \in CachePaths, q \in CacheQueries :
        /\ path' = Some(p)
        /\ query' = q
        /\ result' = Some(from_file(files, p, q))
        /\ pc' = IF from_file(files, p, q).ok THEN "loaded" ELSE "error"
    /\ UNCHANGED <<describe, describeCalls, liveVars, inputVars,
                   files, saved, manifest_dir, reads>>

InitCache ==
    /\ pc = "idle"
    /\ result = None
    /\ query = None
    /\ describe = None
    /\ describeCalls = 0
    /\ features = {"offline"}
    /\ db_url = None
    /\ conn = None
    /\ connectCalls = 0
    /\ InputIdle
    /\ files \in [{"sqlx-data.json", "target/sqlx-data.json"} ->
                     {None, Some("{\"query\":\"SELECT 1\"")}]
    /\ saved = None
    /\ path = None
    /\ manifest_dir = None
    /\ reads = <<>>

NextCache == ToFile \/ FromFile

SpecCache == InitCache /\ [][NextCache]_vars

-----------------------------------------------------------------------------
(* input.rs: read_file_src, and std::path::Path on a Unix target           *)

MaxSegments == 2    \* slash-separated segments of a source_file path

\* the text between the slashes of s, in order
RECURSIVE SplitSlash(_, _, _)
SplitSlash(s, cur, acc) ==
    IF Len(s) = 0 THEN Append(acc, cur)
    ELSE IF Head(s) = "/" THEN SplitSlash(Tail(s), "", Append(acc, cur))
    ELSE SplitSlash(Tail(s), cur \o Head(s), acc)

\* Path::is_absolute
is_absolute(s) == StartsWith(s, "/")
\* Path::is_relative
is_relative(s) == ~is_absolute(s)

\* Path::components: the root, then the segments without the empty ones and
\* without "." other than a leading one of a relative path
RECURSIVE KeepSegments(_, _)
KeepSegments(segs, first) ==
    IF segs = <<>> THEN <<>>
    ELSE IF Head(segs) = "" THEN KeepSegments(Tail(segs), first)
    ELSE IF Head(segs) = "." /\ ~first THEN KeepSegments(Tail(segs), FALSE)
    ELSE <<Head(segs)>> \o KeepSegments(Tail(segs), FALSE)

Components(s) ==
    IF is_absolute(s)
    THEN <<"/">> \o KeepSegments(SplitSlash(s, "", <<>>), FALSE)
    ELSE KeepSegments(SplitSlash(s, "", <<>>), TRUE)

\* Components::as_path
RECURSIVE AsPath(_)
AsPath(comps) ==
    IF comps = <<>> THEN ""
    ELSE IF Len(comps) = 1 THEN comps[1]
    ELSE IF comps[1] = "/" THEN "/" \o AsPath(Tail(comps))
    ELSE comps[1] \o "/" \o AsPath(Tail(comps))

\* Path::parent: None for the empty path and for the root
parent(s) ==
    LET comps == Components(s) IN
    IF comps = <<>> \/ comps[Len(comps)] = "/" THEN None
    ELSE Some(AsPath(SubSeq(comps, 1, Len(comps) - 1)))

\* Path::join with a relative or absolute second path
join(base, p) ==
    IF is_absolute(p) THEN p
    ELSE IF Len(base) = 0 \/ SubSeq(base, Len(base), Len(base)) = "/" THEN base \o p
    ELSE base \o "/" \o p

\* the file the operating system opens for a path: ".." steps back
RECURSIVE Resolve(_, _)
Resolve(comps, acc) ==
    IF comps = <<>> THEN acc
    ELSE IF Head(comps) = "." THEN Resolve(Tail(comps), acc)
    ELSE IF Head(comps) = ".." THEN
        Resolve(Tail(comps), IF Len(acc) > 1 THEN SubSeq(acc, 1, Len(acc) - 1) ELSE acc)
    ELSE Resolve(Tail(comps), Append(acc, Head(comps)))

Canonical(p) == AsPath(Resolve(Components(p), <<>>))

AbsolutePathError == "absolute paths will only work on the current machine"
RelativePathError ==
    "paths relative to the current file's directory are not currently supported"
ManifestDirError == "CARGO_MANIFEST_DIR is not set; please use Cargo to build"

\* a check of the path that forgets the parentless case
CheckPath_AbsoluteOnly(source) ==
    IF is_absolute(source) THEN Err(AbsolutePathError)
    ELSE Ok(source)

\* the first two checks of read_file_src: Err, or Ok when the path passes
CheckPath(source) ==
    IF is_absolute(source) THEN Err(AbsolutePathError)
    ELSE IF is_relative(source)
            /\ ~(IF IsSome(parent(source)) THEN Len(Unwrap(parent(source))) # 0 ELSE FALSE)
    THEN Err(RelativePathError)
    ELSE Ok(source)

\* read_file_src up to fs::read_to_string: Err, or Ok(file_path) to read
ResolveSource(source, env) ==
    IF ~CheckPath(source).ok THEN CheckPath(source)
    ELSE IF ~IsSome(env) THEN Err(ManifestDirError)
    ELSE Ok(join(Unwrap(env), source))

\* fs::read_to_string(&file_path).await.map_err(..)
ReadToString(fs, file_path) ==
    IF Canonical(file_path) \in DOMAIN fs /\ IsSome(fs[Canonical(file_path)])
    THEN Ok(Unwrap(fs[Canonical(file_path)]))
    ELSE Err("failed to read query file at " \o file_path
             \o ": No such file or directory (os error 2)")

SegmentNames == {"queries", "a.sql", "missing.sql", ".", "..", ""}

RECURSIVE JoinSlash(_)
JoinSlash(segs) ==
    IF segs = <<>> THEN ""
    ELSE IF Len(segs) = 1 THEN segs[1]
    ELSE segs[1] \o "/" \o JoinSlash(Tail(segs))

\* source_file literals a user may write
Sources ==
    {root \o JoinSlash(segs) : root \in {"", "/"}, segs \in SeqUpTo(SegmentNames, MaxSegments)}

\* read_file_src returns before reading a file
ReadFileSrcReject ==
    /\ pc = "idle"
    /\ \E source \in Sources :
        /\ ~ResolveSource(source, manifest_dir).ok
        /\ path' = Some(source)
        /\ result' = Some(ResolveSource(source, manifest_dir))
    /\ pc' = "error"
    /\ UNCHANGED <<query, describe, describeCalls, liveVars, inputVars,
                   files, saved, manifest_dir, reads>>

\* read_file_src reads the file under the project root
ReadFileSrcRead ==
    /\ pc = "idle"
    /\ \E source \in Sources :
        /\ ResolveSource(source, manifest_dir).ok
        /\ path' = Some(source)
        /\ reads' = Append(reads, ResolveSource(source, manifest_dir).val)
        /\ result' = Some(ReadToString(files, ResolveSource(source, manifest_dir).val))
        /\ pc' = IF ReadToString(files, ResolveSource(source, manifest_dir).val).ok
                 THEN "done" ELSE "error"
    /\ UNCHANGED <<query, describe, describeCalls, liveVars, inputVars,
                   files, saved, manifest_dir>>

InitSource ==
    /\ pc = "idle"
    /\ result = None
    /\ query = None
    /\ describe = None
    /\ describeCalls = 0
    /\ LiveIdle
    /\ InputIdle
    /\ files \in {[f \in {"/proj/queries/a.sql"} |-> Some("SELECT 1")],
                  [f \in {"/proj/queries/a.sql", "/proj/a.sql"} |-> Some("SELECT $1")]}
    /\ saved = None
    /\ path = None
    /\ manifest_dir \in {None, Some("/proj"), Some("/proj/")}
    /\ reads = <<>>

NextSource == ReadFileSrcReject \/ ReadFileSrcRead

SpecSource == InitSource /\ [][NextSource]_vars

-----------------------------------------------------------------------------
(* Properties of describe_query (SpecDescribe)                             *)

Returned == result # None
Described == describe # None /\ Unwrap(describe).ok
DescribedColumns == Unwrap(describe).val.result_columns
DescribedParams == Unwrap(describe).val.param_types

\* a column the adapter can map: named, typed, and of a mappable type
Mappable(column) ==
    /\ IsSome(column.name)
    /\ IsSome(column.type_info)
    /\ IsSome(return_type_for_id(Unwrap(column.type_info)))

MappedTypeName(column) == Unwrap(return_type_for_id(Unwrap(column.type_info)))

\* C1: every column of a successful description is emitted as its mapped
\* type name T when non_null is Some(true), and as "Option<T>" when non_null
\* is Some(false) or None.
C1_NullabilityAsSpecified ==
    (Returned /\ Unwrap(result).ok) =>
        \A k \in 1..Len(DescribedColumns) :
            Unwrap(result).val.outputs[k][2] =
                IF DescribedColumns[k].non_null = Some(TRUE)
                THEN MappedTypeName(DescribedColumns[k])
                ELSE "Option<" \o MappedTypeName(DescribedColumns[k]) \o ">"

\* C3: when the column at 1-based position k has no name (and the columns
\* before it map), describe_query fails with "column at position k must have
\* a name".
C3_UnnamedColumnOneBased ==
    (Returned /\ Described) =>
        \A k \in 1..Len(DescribedColumns) :
            (/\ DescribedColumns[k].name = None
             /\ \A j \in 1..(k - 1) : Mappable(DescribedColumns[j]))
            => /\ ~Unwrap(result).ok
               /\ Unwrap(result).err =
                      "column at position " \o ToString(k) \o " must have a name"

\* C6: description is all-or-nothing.  describe_query returns an error exactly
\* when describe failed or some column lacks a name, lacks type_info or has an
\* unmappable type; otherwise it returns a descriptor with one input type per
\* parameter and one output per result column, output k carrying the name of
\* result column k.
C6_AllOrNothing ==
    Returned =>
        /\ ~Unwrap(result).ok <=>
               (~Described \/ \E k \in 1..Len(DescribedColumns) :
                                 ~Mappable(DescribedColumns[k]))
        /\ Unwrap(result).ok =>
               /\ Len(Unwrap(result).val.input_types) = Len(DescribedParams)
               /\ Len(Unwrap(result).val.outputs) = Len(DescribedColumns)
               /\ \A k \in 1..Len(DescribedColumns) :
                      Unwrap(result).val.outputs[k][1] = Unwrap(DescribedColumns[k].name)

\* a description of one parameter and two differently named columns succeeded
C6_Witness ==
    /\ Returned /\ Described
    /\ Len(DescribedColumns) = 2
    /\ Unwrap(result).ok
    /\ DescribedColumns[1].name = Some("name")
    /\ DescribedColumns[2].name = Some("id")
    /\ Len(DescribedParams) = 1

-----------------------------------------------------------------------------
(* Properties of from_db (SpecLive)                                        *)

\* the capability the scheme table assigns to a scheme
CapabilityOf(scheme) ==
    IF scheme = "sqlite" THEN "sqlite"
    ELSE IF scheme = "postgresql" \/ scheme = "postgres" THEN "postgres"
    ELSE IF scheme = "mysql" \/ scheme = "mariadb" THEN "mysql"
    ELSE "none"

Entered == pc # "idle" /\ db_url # None
ParsedUrl == ParseUrl(db_url).val
Failed == pc = "error" /\ Returned /\ ~Unwrap(result).ok

\* C4: for a URL that parses, from_db (1) calls connect when the scheme is in
\* the table and its capability is enabled, (2) fails without connecting with
\* the feature-not-enabled error naming the capability when the scheme is in
\* the table and the capability is not enabled, (3) fails without connecting
\* with the unexpected-scheme error naming the scheme otherwise; the errors of
\* (2) and (3) differ.
C4_DispatchByScheme ==
    (Entered /\ ParseUrl(db_url).ok) =>
        LET cap == CapabilityOf(ParsedUrl.scheme)
            unexpected == "unexpected scheme \"" \o ParsedUrl.scheme
                          \o "\" in database URL " \o ParsedUrl.scheme \o "://"
                          \o ParsedUrl.rest
        IN  /\ cap \in features => connectCalls = 1
            /\ cap \in Features \ features =>
                   /\ connectCalls = 0
                   /\ Failed
                   /\ \E db \in {"SQLite", "Postgres", "MySQL/MariaDB"} :
                          Unwrap(result).err =
                              "database URL " \o ParsedUrl.scheme \o "://"
                              \o ParsedUrl.rest \o " has the scheme of a " \o db
                              \o " database but the '" \o cap
                              \o "' feature of sqlx was not enabled"
                   /\ Unwrap(result).err # unexpected
            /\ cap = "none" =>
                   /\ connectCalls = 0
                   /\ Failed
                   /\ Unwrap(result).err = unexpected

\* the scenario of the specification: postgres selected, capability missing
C4_Witness ==
    /\ Entered
    /\ db_url[1] = "postgres"
    /\ "postgres" \notin features
    /\ "mysql" \in features
    /\ Failed

\* C7: one occurrence calls connect at most once and describe at most once,
\* calls describe only in the step that yields the open connection, and once
\* it has failed it holds an error, no descriptor, and makes no further call.
C7_SingleAttempt ==
    /\ [](connectCalls <= 1 /\ describeCalls <= 1 /\ describeCalls <= connectCalls)
    /\ [](pc = "error" => Failed)
    /\ [][describeCalls' # describeCalls => (conn = None /\ conn' # None)]_vars
    /\ [][pc = "error" => (pc' = "error" /\ connectCalls' = connectCalls
                            /\ describeCalls' = describeCalls /\ result' = result)]_vars

\* connect was called once and failed
C7_Witness ==
    /\ Failed
    /\ connectCalls = 1
    /\ describeCalls = 0
    /\ Unwrap(result).err = "failed to connect to database: connection refused"

-----------------------------------------------------------------------------
(* Properties of QueryMacroInput::parse (SpecParse)                        *)

RecognizedLiteral == [source |-> "str", source_file |-> "str", args |-> "array",
                      record_type |-> "ident", unchecked_output |-> "bool"]

\* ts is `key literal` pairs of recognized keys, separated by commas, with no
\* trailing comma
RECURSIVE IsPairList(_)
IsPairList(ts) ==
    /\ Len(ts) >= 2
    /\ ts[1][1] = "ident"
    /\ ts[1][2] \in DOMAIN RecognizedLiteral
    /\ ts[2][1] = RecognizedLiteral[ts[1][2]]
    /\ \/ Len(ts) = 2
       \/ Len(ts) > 3 /\ ts[3] = Comma /\ IsPairList(SubSeq(ts, 4, Len(ts)))

HasKey(ts, key) == \E k \in 1..Len(ts) : k % 3 = 1 /\ ts[k] = Ident(key)

\* the expressions of the last `args` pair, none when there is no such pair
DeclaredArgs(ts) ==
    LET at == {k \in 1..Len(ts) : k % 3 = 1 /\ ts[k] = Ident("args")} IN
    IF at = {} THEN <<>>
    ELSE ts[(CHOOSE k \in at : \A j \in at : j <= k) + 1][2]

\* C2: a comma-separated list of recognized `key literal` pairs that contains
\* `source` parses, with arg_exprs the declared expressions and arg_names
\* arg0 .. arg{n-1}.
C2_ValidInputParses ==
    (Returned /\ input # None /\ IsPairList(Unwrap(input))
              /\ HasKey(Unwrap(input), "source")) =>
        /\ Unwrap(result).ok
        /\ Unwrap(result).val.arg_exprs = DeclaredArgs(Unwrap(input))
        /\ Len(Unwrap(result).val.arg_names) = Len(DeclaredArgs(Unwrap(input)))
        /\ \A k \in 1..Len(DeclaredArgs(Unwrap(input))) :
               Unwrap(result).val.arg_names[k] = "arg" \o ToString(k - 1)

-----------------------------------------------------------------------------
(* Properties of describe_validate (SpecValidate)                          *)

Declared == Len(Unwrap(macro_input).arg_names)

\* C5: describe_validate compares counts only.  With d declared arguments and
\* a description of p parameters it fails with "expected p parameters, got d"
\* when d # p and returns the description unchanged when d = p.
C5_CountOnly ==
    (Returned /\ Described /\ macro_input # None) =>
        /\ Declared # Len(DescribedParams) =>
               /\ ~Unwrap(result).ok
               /\ Unwrap(result).err =
                      "expected " \o ToString(Len(DescribedParams))
                      \o " parameters, got " \o ToString(Declared)
        /\ Declared = Len(DescribedParams) =>
               /\ Unwrap(result).ok
               /\ Unwrap(result).val = Unwrap(describe).val

\* the scenario of the specification: 1 declared, 2 described
C5_Witness ==
    /\ Returned /\ Described /\ macro_input # None
    /\ Declared = 1
    /\ Len(DescribedParams) = 2
    /\ Unwrap(result) = Err("expected 2 parameters, got 1")

-----------------------------------------------------------------------------
(* Properties of to_file / from_file (SpecCache)                           *)

Loaded == pc \in {"loaded", "error"} /\ Returned /\ path # None
SavedOk == saved # None /\ Unwrap(saved).ret.ok

\* C8: after to_file(d, p) has succeeded, from_file(p, _) succeeds and returns
\* d: the same query, the same input_types and the same outputs, in order.
C8_RoundTrip ==
    (Loaded /\ SavedOk /\ Unwrap(path) = Unwrap(saved).path) =>
        /\ Unwrap(result).ok
        /\ Unwrap(result).val.query = Unwrap(saved).self.query
        /\ Unwrap(result).val.input_types = Unwrap(saved).self.input_types
        /\ Unwrap(result).val.outputs = Unwrap(saved).self.outputs

\* a descriptor with characters that need escaping, a null and a string
\* spelled null went through the file
C8_Witness ==
    /\ Loaded /\ SavedOk /\ Unwrap(path) = Unwrap(saved).path
    /\ Unwrap(result).ok
    /\ Unwrap(saved).self.query = "SELECT \"id\" FROM t\nWHERE a = '\\'"
    /\ Unwrap(saved).self.input_types = <<None, Some("null")>>
    /\ Unwrap(saved).self.outputs = <<<<"a\"b", "Option<i32>">>>>

\* C10: a descriptor returned by from_file(path, q) has query = q.
C10_QueryVerbatim ==
    (pc = "loaded" /\ Returned /\ Unwrap(result).ok) =>
        Unwrap(result).val.query = query

-----------------------------------------------------------------------------
(* Properties of read_file_src (SpecSource)                                *)

Resolved == Returned /\ path # None
HasParentDir(s) == IsSome(parent(s)) /\ Unwrap(parent(s)) # ""
Rejected(message) == ~Unwrap(result).ok /\ Unwrap(result).err = message /\ reads = <<>>

\* C9: read_file_src reads a file only for a relative path with a non-empty
\* parent while CARGO_MANIFEST_DIR is set; an absolute path and a parentless
\* relative path fail with their path errors, and a missing CARGO_MANIFEST_DIR
\* fails with its configuration error, each before any read.
C9_ReadOnlySafePaths ==
    Resolved =>
        LET source == Unwrap(path) IN
        /\ Len(reads) <= 1
        /\ reads # <<>> =>
               /\ ~is_absolute(source)
               /\ HasParentDir(source)
               /\ IsSome(manifest_dir)
        /\ is_absolute(source) => Rejected(AbsolutePathError)
        /\ (~is_absolute(source) /\ ~HasParentDir(source)) => Rejected(RelativePathError)
        /\ (~is_absolute(source) /\ HasParentDir(source) /\ ~IsSome(manifest_dir)) =>
               Rejected(ManifestDirError)

\* an absolute path was rejected although the project root is set
C9_Witness ==
    /\ Resolved
    /\ Unwrap(path) = "/queries/a.sql"
    /\ IsSome(manifest_dir)
    /\ Rejected("absolute paths will only work on the current machine")

====
